---------------------------- MODULE Spec2Model ----------------------------
(***************************************************************************)
(* dingostore: an LSM-style key-value store (src/src/dingostore/mod.rs).   *)
(* One engine `ds` (objs, keys, treesize) with its shared index and        *)
(* flushed_files maps, the files it writes, the millisecond clock that     *)
(* names them, and a store rebuilt from one file by deserialize.           *)
(*                                                                         *)
(* Spec is the engine under insert, get and deserialize. The other         *)
(* specifications drive the same state in one way each: SpecDistinct       *)
(* (fresh keys), SpecAllowFlush and SpecNoFlush (one value of the flush    *)
(* flag), SpecReopen (inserts on the store deserialize returned),          *)
(* SpecCompact (compact as the last call), SpecDecode (deserialize on a    *)
(* file cut short) and SpecThreads (flush, get and compact step by step on *)
(* three threads whose handles share the two mutexes).                     *)
(*                                                                         *)
(* A u64 is modelled as the pair <<hi, lo>> of its two 32-bit words (TLC's *)
(* integers are 32 bits wide); the order on pairs is the numeric order.    *)
(* A String is the sequence of its UTF-8 bytes; a file is a sequence of    *)
(* bytes. Every byte of the model is below 128, so String::from_utf8       *)
(* (mod.rs:122) never fails on a decoded value.                            *)
(***************************************************************************)
EXTENDS Integers, Sequences, FiniteSets, TLC

\* ------------------------------------------------------------------ bounds
\* Number of records a memtable holds before an insert flushes. The source's
\* threshold of 80000 bytes is 2500 records of 32 counted bytes each; the
\* model keeps the rule and scales the count.
MaxMemRecords == 1
\* Keys are the u64 values 1..MaxKey.
MaxKey == 3
\* The millisecond clock takes the values 0..MaxTime.
MaxTime == 1
\* Number of flushes in a run.
MaxFlushes == 2

\* --------------------------------------------------------------- constants
\* std::mem::size_of::<u64>()
U64_SIZE == 8
\* size_of_val(&val) for val: String (pointer, capacity, length on a 64-bit
\* target): the size of the handle, whatever the string holds.
STRING_SIZE == 24
\* const SIZE_THRESH: u32 = 80000, scaled (see MaxMemRecords).
SIZE_THRESH == (U64_SIZE + STRING_SIZE) * MaxMemRecords

U64(n) == <<0, n>>
Keys == {U64(n) : n \in 1..MaxKey}
\* The strings "a" and "bb".
Values == {<<97>>, <<98, 98>>}
\* self.fname of the engine made by DingoStore::new("dingostore"). A file
\* name is the sequence of its parts: the prefix, then one timestamp for each
\* format! that extended it.
Prefix == <<"dingostore">>

None == [some |-> FALSE]
Some(v) == [some |-> TRUE, val |-> v]

VARIABLES
    objs,            \* ds.objs: BTreeMap<u64, String>
    keys,            \* ds.keys: Vec<u64>
    treesize,        \* ds.treesize: u32
    index,           \* ds.index: key -> path of a data file
    flushed_files,   \* ds.flushed_files: path -> path
    files,           \* the file system: path -> bytes
    now,             \* SystemTime::now() in milliseconds
    panicked,        \* "no" while calls are taken; else what ended the run:
                     \* the unwrap() that panicked, "overflow", "dropped",
                     \* "compacted"
    rs,              \* the store DingoStore::deserialize returned, or None
    lastOp,          \* history: the last call, and what a get returned
    lastVal,         \* history: key -> the value of its latest insert
    flushes,         \* history: number of flushes started
    pc,              \* threads: where the writer, the reader and the
                     \* compactor stand in flush, get and compact
    holder,          \* threads: the thread that holds each shared mutex
    poisoned,        \* threads: the mutexes a panic has poisoned
    local,           \* threads: the locals of the call each thread is in
    unsynced         \* history: files written to since their last sync_all

\* The state of the threads that work on clones of the engine.
tvars == <<pc, holder, poisoned, local, unsynced>>

vars == <<objs, keys, treesize, index, flushed_files, files, now, panicked,
          rs, lastOp, lastVal, flushes, tvars>>

\* ------------------------------------------------------------------- maps
EmptyMap == [k \in {} |-> 0]
MapPut(m, k, v) == [x \in DOMAIN m \cup {k} |-> IF x = k THEN v ELSE m[x]]
Range(m) == {m[k] : k \in DOMAIN m}

\* Numeric order of two u64.
KeyLess(a, b) == a[1] < b[1] \/ (a[1] = b[1] /\ a[2] < b[2])

MinKey(S) == CHOOSE k \in S : \A o \in S : o = k \/ KeyLess(k, o)

\* BTreeMap iteration order: the keys of S ascending.
RECURSIVE SortedKeys(_)
SortedKeys(S) ==
    IF S = {} THEN <<>>
    ELSE LET m == MinKey(S) IN <<m>> \o SortedKeys(S \ {m})

\* ------------------------------------------------------------------ codec
\* u32::to_be_bytes
U32Bytes(n) ==
    <<(n \div 16777216) % 256, (n \div 65536) % 256, (n \div 256) % 256, n % 256>>

\* u32::from_be_bytes
U32Of(b) == b[1] * 16777216 + b[2] * 65536 + b[3] * 256 + b[4]

\* u64::to_be_bytes
to_be_bytes(k) == U32Bytes(k[1]) \o U32Bytes(k[2])

\* u64::from_be_bytes
from_be_bytes(b) == <<U32Of(SubSeq(b, 1, 4)), U32Of(SubSeq(b, 5, 8))>>

\* DingoStore::serialize: key, length of the value, the value.
serialize(key, val) == to_be_bytes(key) \o U32Bytes(Len(val)) \o val

\* The read loop of try_deserialize: the records of `bytes` in file order.
\* A short read of the key or of the length ends the loop; a short read of
\* the value is the error `?` returns.
RECURSIVE read_loop(_, _)
read_loop(bytes, recs) ==
    IF Len(bytes) < 8 THEN [ok |-> TRUE, recs |-> recs]
    ELSE IF Len(bytes) < 12 THEN [ok |-> TRUE, recs |-> recs]
    ELSE LET key == from_be_bytes(SubSeq(bytes, 1, 8))
             val_len == U32Of(SubSeq(bytes, 9, 12))
         IN  IF Len(bytes) - 12 < val_len
             THEN [ok |-> FALSE, recs |-> recs]
             ELSE read_loop(SubSeq(bytes, 13 + val_len, Len(bytes)),
                            Append(recs, [key |-> key,
                                          val |-> SubSeq(bytes, 13, 12 + val_len)]))

\* A loader that keeps the first record of a key and skips the later ones.
RECURSIVE LoadObjs_KeepFirst(_, _)
LoadObjs_KeepFirst(recs, m) ==
    IF recs = <<>> THEN m
    ELSE LoadObjs_KeepFirst(Tail(recs),
            IF Head(recs).key \in DOMAIN m THEN m
            ELSE MapPut(m, Head(recs).key, Head(recs).val))

\* new_store.objs.insert(key, val) for each record read, in order.
RECURSIVE LoadObjs(_, _)
LoadObjs(recs, m) ==
    IF recs = <<>> THEN m
    ELSE LoadObjs(Tail(recs), MapPut(m, Head(recs).key, Head(recs).val))

\* new_store.treesize += size_of::<u64>() + val_len for each record read.
RECURSIVE LoadSize(_)
LoadSize(recs) ==
    IF recs = <<>> THEN 0
    ELSE U64_SIZE + Len(Head(recs).val) + LoadSize(Tail(recs))

\* DingoStore::new(fname)
NewStore(fname) ==
    [fname |-> fname, objs |-> EmptyMap, keys |-> <<>>, treesize |-> 0,
     index |-> EmptyMap, flushed_files |-> EmptyMap]

\* try_deserialize(filename): File::open fails when the file is missing or
\* the open itself fails (openFails); otherwise the store the loop builds.
try_deserialize(fs, filename, fname, openFails) ==
    IF openFails \/ filename \notin DOMAIN fs THEN [ok |-> FALSE]
    ELSE LET r == read_loop(fs[filename], <<>>) IN
         IF ~r.ok THEN [ok |-> FALSE]
         ELSE LET o == LoadObjs(r.recs, EmptyMap) IN
              [ok |-> TRUE,
               store |-> [NewStore(fname) EXCEPT
                             !.objs = o,
                             !.treesize = LoadSize(r.recs),
                             !.keys = SortedKeys(DOMAIN o)]]

\* DingoStore::get on a store with memtable o and directory idx.
get(o, idx, fs, key, openFails) ==
    IF key \in DOMAIN o THEN Some(o[key])
    ELSE IF key \in DOMAIN idx
         THEN LET tempds == try_deserialize(fs, idx[key], Prefix, openFails) IN
              IF tempds.ok /\ key \in DOMAIN tempds.store.objs
              THEN Some(tempds.store.objs[key])
              ELSE None
         ELSE None

\* The try_deserialize call inside get returned Err.
getSegmentErr(o, idx, fs, key, openFails) ==
    /\ key \notin DOMAIN o
    /\ key \in DOMAIN idx
    /\ ~try_deserialize(fs, idx[key], Prefix, openFails).ok

\* ------------------------------------------------------------------ flush
\* format!("{}_{}.data", self.fname, ts)
data_fname(fname, ts) == Append(fname, ts)

\* The bytes flush writes: the records of o in ascending key order.
RECURSIVE FlushBytes(_, _)
FlushBytes(o, ks) ==
    IF ks = <<>> THEN <<>>
    ELSE serialize(Head(ks), o[Head(ks)]) \o FlushBytes(o, Tail(ks))

\* OpenOptions::new().write(true).create(true) neither truncates nor appends:
\* the writes start at offset 0 and a longer earlier content keeps its tail.
WriteFromStart(old, new) == new \o SubSeq(old, Len(new) + 1, Len(old))

OldBytes(fs, path) == IF path \in DOMAIN fs THEN fs[path] ELSE <<>>

\* index.insert(*key, data_fname.clone()) for every key of ks.
IndexAll(idx, ks, path) ==
    [k \in DOMAIN idx \cup ks |-> IF k \in ks THEN path ELSE idx[k]]

\* ----------------------------------------------------------------- insert
\* let new_size = self.treesize + size_of::<u64>() + size_of_val(&val)
new_size(ts) == ts + U64_SIZE + STRING_SIZE

\* A store whose insert compares the size it has, not the size it would get.
TakesFlushBranch_OldSize(ts, flush) == ts > SIZE_THRESH /\ flush

\* A store whose insert flushes a full memtable whatever the caller passed.
TakesFlushBranch_IgnoreFlag(ts, flush) == new_size(ts) > SIZE_THRESH

\* if new_size > SIZE_THRESH && flush
TakesFlushBranch(ts, flush) == new_size(ts) > SIZE_THRESH /\ flush

\* The else branch of insert: update in place or add.
InsertSize(o, ts, key) ==
    IF key \in DOMAIN o
    THEN (ts - STRING_SIZE) + STRING_SIZE
    ELSE (ts + U64_SIZE) + STRING_SIZE

\* An insert that leaves the value of a key the map already holds.
InsertObjs_KeepOld(o, key, val) == IF key \in DOMAIN o THEN o ELSE MapPut(o, key, val)

\* self.objs.insert(key, val.clone())
InsertObjs(o, key, val) == MapPut(o, key, val)

\* self.keys = self.objs.keys().cloned().collect()
CollectKeys(o) == SortedKeys(DOMAIN o)

History(key, val) == lastVal' = MapPut(lastVal, key, val)

NoOp == [op |-> "none"]

\* No call is in progress on any thread and both mutexes are free.
Threads == {"W", "R", "K"}
InitThreads ==
    /\ pc = [t \in Threads |-> "idle"]
    /\ holder = [index |-> "none", flushed_files |-> "none"]
    /\ poisoned = {}
    /\ local = [t \in Threads |-> None]
    /\ unsynced = {}

Init ==
    /\ objs = EmptyMap
    /\ keys = <<>>
    /\ treesize = 0
    /\ index = EmptyMap
    /\ flushed_files = EmptyMap
    /\ files = EmptyMap
    /\ now = 0
    /\ panicked = "no"
    /\ rs = None
    /\ lastOp = NoOp
    /\ lastVal = EmptyMap
    /\ flushes = 0
    /\ InitThreads

\* The engine can be called: no unwrap() has panicked, and it has not been
\* dropped and rebuilt from a file.
Live == panicked = "no" /\ rs = None

\* insert(key, val, flush) when no flush is made.
InsertInPlace(key, val, flush) ==
    /\ Live
    /\ ~TakesFlushBranch(treesize, flush)
    /\ treesize' = InsertSize(objs, treesize, key)
    /\ objs' = InsertObjs(objs, key, val)
    /\ keys' = CollectKeys(objs')
    /\ lastOp' = [op |-> "insert", replaced |-> key \in DOMAIN objs]
    /\ History(key, val)
    /\ UNCHANGED <<index, flushed_files, files, now, panicked, rs,
                   flushes>>
    /\ UNCHANGED tvars

\* insert(key, val, true) when the memtable is full: flush, then the new
\* record starts the next memtable.
InsertFlush(key, val) ==
    /\ Live
    /\ flushes < MaxFlushes
    /\ flushes' = flushes + 1
    /\ TakesFlushBranch(treesize, TRUE)
    /\ LET path == data_fname(Prefix, now)
           ks == SortedKeys(DOMAIN objs)
       IN  /\ files' = MapPut(files, path,
                         WriteFromStart(OldBytes(files, path), FlushBytes(objs, ks)))
           /\ index' = IndexAll(index, DOMAIN objs, path)
           /\ flushed_files' = MapPut(flushed_files, path, path)
           /\ objs' = InsertObjs(EmptyMap, key, val)
           /\ treesize' = U64_SIZE + STRING_SIZE
           /\ keys' = CollectKeys(objs')
           /\ lastOp' = [op |-> "insert", replaced |-> FALSE]
    /\ History(key, val)
    /\ UNCHANGED <<now, panicked, rs>>
    /\ UNCHANGED tvars

\* insert(key, val, true) when the memtable is full and the flush panics:
\* open(..).unwrap() before anything is written, write_all(..).unwrap() at
\* record `at` (the earlier records are written and indexed), or
\* sync_all().unwrap() after all of them.
InsertFlushPanics(key, val, step, at) ==
    /\ Live
    /\ flushes < MaxFlushes
    /\ flushes' = flushes + 1
    /\ TakesFlushBranch(treesize, TRUE)
    /\ LET path == data_fname(Prefix, now)
           ks == SortedKeys(DOMAIN objs)
           done == IF step = "open" THEN <<>>
                   ELSE IF step = "write" THEN SubSeq(ks, 1, at - 1)
                   ELSE ks
       IN  /\ step = "write" => at \in 1..Len(ks)
           /\ step # "write" => at = 0
           /\ files' = IF step = "open" THEN files
                       ELSE MapPut(files, path,
                              WriteFromStart(OldBytes(files, path), FlushBytes(objs, done)))
           /\ index' = IndexAll(index, {done[i] : i \in 1..Len(done)}, path)
    /\ panicked' = step
    /\ UNCHANGED <<objs, keys, treesize, flushed_files, now, rs, lastOp, lastVal>>
    /\ UNCHANGED tvars

\* get(key) on the engine; File::open inside it may fail.
Get(key, openFails) ==
    /\ Live
    /\ lastOp' = [op |-> "get",
                  res |-> get(objs, index, files, key, openFails),
                  segErr |-> getSegmentErr(objs, index, files, key, openFails)]
    /\ UNCHANGED <<objs, keys, treesize, index, flushed_files, files, now,
                   panicked, rs, lastVal, flushes>>
    /\ UNCHANGED tvars

\* The engine is dropped (its memtable and its maps go with it) and
\* DingoStore::deserialize(filename) is called on a file it wrote.
Deserialize(filename, openFails) ==
    /\ Live
    /\ filename \in DOMAIN files
    /\ try_deserialize(files, filename, filename, openFails).ok
    /\ rs' = Some(try_deserialize(files, filename, filename, openFails).store)
    /\ objs' = EmptyMap
    /\ keys' = <<>>
    /\ treesize' = 0
    /\ index' = EmptyMap
    /\ flushed_files' = EmptyMap
    /\ lastOp' = [op |-> "deserialize"]
    /\ UNCHANGED <<files, now, panicked, lastVal, flushes>>
    /\ UNCHANGED tvars

\* deserialize(filename) returns None: File::open or the read loop failed.
DeserializeFails(filename, openFails) ==
    /\ Live
    /\ filename \in DOMAIN files
    /\ ~try_deserialize(files, filename, filename, openFails).ok
    /\ objs' = EmptyMap
    /\ keys' = <<>>
    /\ treesize' = 0
    /\ index' = EmptyMap
    /\ flushed_files' = EmptyMap
    /\ lastOp' = [op |-> "deserialize"]
    /\ panicked' = "dropped"
    /\ UNCHANGED <<files, now, rs, lastVal, flushes>>
    /\ UNCHANGED tvars

\* insert(key, val, flush) as one call: the branch the condition selects.
Insert(key, val, flush) ==
    IF TakesFlushBranch(treesize, flush)
    THEN \/ InsertFlush(key, val)
         \/ \E step \in {"open", "write", "sync"}, at \in 0..MaxKey :
               InsertFlushPanics(key, val, step, at)
    ELSE InsertInPlace(key, val, flush)

\* insert(key, val, flush) on the store deserialize returned. Its counter
\* was built as 8 + val_len per record; when the key is there and the counter
\* is below the 24 the else branch subtracts, `treesize -= 24` overflows: the
\* build with overflow checks panics, the build without them (wraps) goes on
\* with 2^32 - 24 + treesize, and the `+= 24` that follows wraps back.
\* I/O errors of this store's flush are left out.
InsertReopened(key, val, flush, wraps) ==
    /\ panicked = "no"
    /\ rs.some
    /\ LET st == rs.val
           path == data_fname(st.fname, now)
           replaced == key \in DOMAIN st.objs
           underflow == replaced /\ st.treesize < STRING_SIZE
       IN  IF TakesFlushBranch(st.treesize, flush)
           THEN /\ flushes < MaxFlushes
                /\ flushes' = flushes + 1
                /\ files' = MapPut(files, path,
                              WriteFromStart(OldBytes(files, path),
                                  FlushBytes(st.objs, SortedKeys(DOMAIN st.objs))))
                /\ rs' = Some([st EXCEPT
                              !.index = IndexAll(st.index, DOMAIN st.objs, path),
                              !.flushed_files = MapPut(st.flushed_files, path, path),
                              !.objs = InsertObjs(EmptyMap, key, val),
                              !.treesize = U64_SIZE + STRING_SIZE,
                              !.keys = CollectKeys(InsertObjs(EmptyMap, key, val))])
                /\ lastOp' = [op |-> "rs_insert", replaced |-> FALSE,
                              underflow |-> FALSE]
                /\ panicked' = panicked
           ELSE /\ lastOp' = [op |-> "rs_insert", replaced |-> replaced,
                              underflow |-> underflow]
                /\ IF underflow /\ ~wraps
                   THEN /\ panicked' = "overflow"
                        /\ rs' = rs
                   ELSE /\ panicked' = panicked
                        /\ rs' = Some([st EXCEPT
                                !.treesize = InsertSize(st.objs, st.treesize, key),
                                !.objs = InsertObjs(st.objs, key, val),
                                !.keys = CollectKeys(InsertObjs(st.objs, key, val))])
                /\ UNCHANGED <<files, flushes>>
    /\ UNCHANGED <<objs, keys, treesize, index, flushed_files, now, lastVal>>
    /\ UNCHANGED tvars

\* --------------------------------------------------------------- compact
\* flushed_files is a BTreeMap<String, String>: iter() yields its entries in
\* the order of the key strings. The names of one engine are
\* "<fname>_<ms>.data"; for timestamps of equal digit count the string order
\* is the order of the timestamps.
PathLess(a, b) == a[Len(a)] < b[Len(b)]

RECURSIVE SortedPaths(_)
SortedPaths(S) ==
    IF S = {} THEN <<>>
    ELSE LET m == CHOOSE x \in S : \A y \in S \ {x} : PathLess(x, y)
         IN  <<m>> \o SortedPaths(S \ {m})

\* for (key, value) in store.objs { masterstore.insert(key, value, false); }
RECURSIVE PourInto(_, _, _)
PourInto(master, o, ks) ==
    IF ks = <<>> THEN master
    ELSE PourInto([master EXCEPT
                      !.treesize = InsertSize(master.objs, master.treesize, Head(ks)),
                      !.objs = InsertObjs(master.objs, Head(ks), o[Head(ks)]),
                      !.keys = CollectKeys(InsertObjs(master.objs, Head(ks), o[Head(ks)]))],
                  o, Tail(ks))

\* The loop of compact over the flushed files; a file that try_deserialize
\* cannot read (File::open fails for those in `failing`) is passed over.
RECURSIVE MergeFiles(_, _, _, _, _)
MergeFiles(fs, ff, paths, failing, master) ==
    IF paths = <<>> THEN master
    ELSE LET store == try_deserialize(fs, ff[Head(paths)], Prefix,
                                      Head(paths) \in failing)
         IN  MergeFiles(fs, ff, Tail(paths), failing,
                IF store.ok
                THEN PourInto(master, store.store.objs,
                              SortedKeys(DOMAIN store.store.objs))
                ELSE master)

\* The store compact has built when it calls masterstore.flush().
Masterstore(fs, ff, failing) ==
    MergeFiles(fs, ff, SortedPaths(DOMAIN ff), failing, NewStore(Prefix))

\* compact() on the engine, as the last call of the run. masterstore comes
\* from DingoStore::new: its index and flushed_files are its own, and its
\* flush registers the new file in those; they are dropped on return. The
\* I/O errors of masterstore.flush() are left out here.
Compact(failing) ==
    /\ Live
    /\ LET master == Masterstore(files, flushed_files, failing)
           path == data_fname(Prefix, now)
       IN  files' = MapPut(files, path,
                      WriteFromStart(OldBytes(files, path),
                          FlushBytes(master.objs, SortedKeys(DOMAIN master.objs))))
    /\ panicked' = "compacted"
    /\ lastOp' = [op |-> "compact"]
    /\ UNCHANGED <<objs, keys, treesize, index, flushed_files, now, rs, lastVal,
                   flushes>>
    /\ UNCHANGED tvars

\* --------------------------------------------------------------- threads
\* The writer W calls insert on the engine; the reader R and the compactor K
\* work on handles made by clone(), which share index and flushed_files with
\* it (Arc::clone) and copy the memtable, empty when the clones are made.

\* Mutex::lock() returns once no other thread holds the mutex.
CanLock(m) == holder[m] = "none"

\* The mutexes thread t holds are given back.
Released(t) ==
    [m \in DOMAIN holder |-> IF holder[m] = t THEN "none" ELSE holder[m]]

\* An unwrap() panics on thread t: the guards it holds are dropped while the
\* thread is panicking, which poisons their mutexes; the thread is gone.
PanicOf(t) ==
    /\ pc' = [pc EXCEPT ![t] = "dead"]
    /\ poisoned' = poisoned \cup {m \in DOMAIN holder : holder[m] = t}
    /\ holder' = Released(t)
    /\ local' = [local EXCEPT ![t] = None]

\* The call of thread t returns and its guards go out of scope.
Return(t) ==
    /\ pc' = [pc EXCEPT ![t] = "idle"]
    /\ holder' = Released(t)
    /\ local' = [local EXCEPT ![t] = None]
    /\ poisoned' = poisoned

\* A flush whose index guard is scoped to the write loop.
HeldAfterLoop_Dropped(t) == "none"

\* `let mut index = self.index.lock().unwrap()` lives to the end of flush:
\* after the write loop the thread still holds the mutex.
HeldAfterLoop(t) == t

\* An insert of the writer that makes no flush.
WriterInsert(key, val) ==
    /\ pc["W"] = "idle"
    /\ InsertInPlace(key, val, TRUE)

\* insert(key, val, true) on the writer with a full memtable, up to the
\* open of the data file (created empty when it is not there).
FlushOpen(key, val, ok) ==
    /\ pc["W"] = "idle"
    /\ TakesFlushBranch(treesize, TRUE)
    /\ flushes < MaxFlushes
    /\ flushes' = flushes + 1
    /\ LET path == data_fname(Prefix, now) IN
       IF ok
       THEN /\ files' = MapPut(files, path, OldBytes(files, path))
            /\ pc' = [pc EXCEPT !["W"] = "lock_index"]
            /\ local' = [local EXCEPT !["W"] =
                            Some([key |-> key, val |-> val, path |-> path])]
            /\ UNCHANGED <<holder, poisoned>>
       ELSE /\ files' = files
            /\ PanicOf("W")
    /\ UNCHANGED <<objs, keys, treesize, index, flushed_files, now, panicked,
                   rs, lastOp, lastVal, unsynced>>

\* self.index.lock().unwrap() in flush.
FlushLockIndex ==
    /\ pc["W"] = "lock_index"
    /\ CanLock("index")
    /\ IF "index" \in poisoned
       THEN PanicOf("W")
       ELSE /\ pc' = [pc EXCEPT !["W"] = "write"]
            /\ holder' = [holder EXCEPT !.index = "W"]
            /\ UNCHANGED <<poisoned, local>>
    /\ UNCHANGED <<objs, keys, treesize, index, flushed_files, files, now,
                   panicked, rs, lastOp, lastVal, flushes, unsynced>>

\* The write loop of flush: every record written and put in the index
\* (at = 0), or write_all(..).unwrap() panics at record `at`.
FlushWrite(at) ==
    /\ pc["W"] = "write"
    /\ LET path == local["W"].val.path
           ks == SortedKeys(DOMAIN objs)
           done == IF at = 0 THEN ks ELSE SubSeq(ks, 1, at - 1)
       IN  /\ at \in 0..Len(ks)
           /\ files' = MapPut(files, path,
                         WriteFromStart(OldBytes(files, path), FlushBytes(objs, done)))
           /\ index' = IndexAll(index, {done[i] : i \in 1..Len(done)}, path)
           /\ unsynced' = unsynced \cup {path}
    /\ IF at = 0
       THEN /\ pc' = [pc EXCEPT !["W"] = "sync"]
            /\ holder' = [holder EXCEPT !.index = HeldAfterLoop("W")]
            /\ UNCHANGED <<poisoned, local>>
       ELSE PanicOf("W")
    /\ UNCHANGED <<objs, keys, treesize, flushed_files, now, panicked, rs,
                   lastOp, lastVal, flushes>>

\* data_file.sync_all().unwrap()
FlushSync(ok) ==
    /\ pc["W"] = "sync"
    /\ IF ok
       THEN /\ unsynced' = unsynced \ {local["W"].val.path}
            /\ pc' = [pc EXCEPT !["W"] = "lock_files"]
            /\ UNCHANGED <<holder, poisoned, local>>
       ELSE /\ unsynced' = unsynced
            /\ PanicOf("W")
    /\ UNCHANGED <<objs, keys, treesize, index, flushed_files, files, now,
                   panicked, rs, lastOp, lastVal, flushes>>

\* self.flushed_files.lock().unwrap() and the rest of flush, then the rest
\* of insert; the guards are dropped when flush returns.
FlushRegister ==
    /\ pc["W"] = "lock_files"
    /\ CanLock("flushed_files")
    /\ IF "flushed_files" \in poisoned
       THEN /\ PanicOf("W")
            /\ UNCHANGED <<objs, keys, treesize, flushed_files, lastOp, lastVal>>
       ELSE LET l == local["W"].val IN
            /\ flushed_files' = MapPut(flushed_files, l.path, l.path)
            /\ objs' = InsertObjs(EmptyMap, l.key, l.val)
            /\ treesize' = U64_SIZE + STRING_SIZE
            /\ keys' = CollectKeys(objs')
            /\ lastOp' = [op |-> "insert", replaced |-> FALSE]
            /\ History(l.key, l.val)
            /\ Return("W")
    /\ UNCHANGED <<index, files, now, panicked, rs, flushes, unsynced>>

\* get(key) on the reader, whose memtable is empty: self.index.lock().unwrap()
\* and index.get(&key). Without an entry get returns None at once.
GetLock(key) ==
    /\ pc["R"] = "idle"
    /\ CanLock("index")
    /\ IF "index" \in poisoned
       THEN PanicOf("R")
       ELSE IF key \in DOMAIN index
            THEN /\ pc' = [pc EXCEPT !["R"] = "read"]
                 /\ holder' = [holder EXCEPT !.index = "R"]
                 /\ local' = [local EXCEPT !["R"] =
                                 Some([key |-> key, path |-> index[key]])]
                 /\ UNCHANGED poisoned
            ELSE UNCHANGED <<pc, holder, local, poisoned>>
    /\ UNCHANGED <<objs, keys, treesize, index, flushed_files, files, now,
                   panicked, rs, lastOp, lastVal, flushes, unsynced>>

\* self.try_deserialize(data_filename) in get and the return; the guard is
\* dropped when get returns.
GetRead(openFails) ==
    /\ pc["R"] = "read"
    /\ LET l == local["R"].val
           tempds == try_deserialize(files, l.path, Prefix, openFails)
       IN  lastOp' = [op |-> "get",
                      res |-> IF tempds.ok /\ l.key \in DOMAIN tempds.store.objs
                              THEN Some(tempds.store.objs[l.key]) ELSE None,
                      segErr |-> ~tempds.ok]
    /\ Return("R")
    /\ UNCHANGED <<objs, keys, treesize, index, flushed_files, files, now,
                   panicked, rs, lastVal, flushes, unsynced>>

\* self.flushed_files.lock().unwrap() in compact.
CompactLockFiles ==
    /\ pc["K"] = "idle"
    /\ CanLock("flushed_files")
    /\ IF "flushed_files" \in poisoned
       THEN PanicOf("K")
       ELSE /\ pc' = [pc EXCEPT !["K"] = "lock_index"]
            /\ holder' = [holder EXCEPT !.flushed_files = "K"]
            /\ UNCHANGED <<poisoned, local>>
    /\ UNCHANGED <<objs, keys, treesize, index, flushed_files, files, now,
                   panicked, rs, lastOp, lastVal, flushes, unsynced>>

\* self.index.lock().unwrap() in compact.
CompactLockIndex ==
    /\ pc["K"] = "lock_index"
    /\ CanLock("index")
    /\ IF "index" \in poisoned
       THEN PanicOf("K")
       ELSE /\ pc' = [pc EXCEPT !["K"] = "merge"]
            /\ holder' = [holder EXCEPT !.index = "K"]
            /\ UNCHANGED <<poisoned, local>>
    /\ UNCHANGED <<objs, keys, treesize, index, flushed_files, files, now,
                   panicked, rs, lastOp, lastVal, flushes, unsynced>>

\* The rest of compact: the files are read, masterstore is flushed (its own
\* mutexes are free) and compact returns, or the open or the sync_all of
\* that flush panics. The compactor runs once.
CompactMerge(failing, step) ==
    /\ pc["K"] = "merge"
    /\ LET master == Masterstore(files, flushed_files, failing)
           path == data_fname(Prefix, now)
           written == MapPut(files, path,
                         WriteFromStart(OldBytes(files, path),
                             FlushBytes(master.objs, SortedKeys(DOMAIN master.objs))))
       IN  \/ /\ step = "ok"
              /\ files' = written
              /\ unsynced' = unsynced \ {path}
              /\ pc' = [pc EXCEPT !["K"] = "done"]
              /\ holder' = Released("K")
              /\ UNCHANGED <<poisoned, local>>
           \/ /\ step = "open"
              /\ UNCHANGED <<files, unsynced>>
              /\ PanicOf("K")
           \/ /\ step = "sync"
              /\ files' = written
              /\ unsynced' = unsynced \cup {path}
              /\ PanicOf("K")
    /\ UNCHANGED <<objs, keys, treesize, index, flushed_files, now, panicked,
                   rs, lastOp, lastVal, flushes>>

\* The clock advances.
Tick ==
    /\ now < MaxTime
    /\ now' = now + 1
    /\ UNCHANGED <<objs, keys, treesize, index, flushed_files, files, panicked,
                   rs, lastOp, lastVal, flushes>>
    /\ UNCHANGED tvars

Next ==
    \/ \E key \in Keys, val \in Values, flush \in BOOLEAN :
          InsertInPlace(key, val, flush)
    \/ \E key \in Keys, val \in Values : InsertFlush(key, val)
    \/ \E key \in Keys, val \in Values, step \in {"open", "write", "sync"},
          at \in 0..MaxKey : InsertFlushPanics(key, val, step, at)
    \/ \E key \in Keys, openFails \in BOOLEAN : Get(key, openFails)
    \/ \E filename \in DOMAIN files, openFails \in BOOLEAN :
          Deserialize(filename, openFails)
    \/ \E filename \in DOMAIN files, openFails \in BOOLEAN :
          DeserializeFails(filename, openFails)
    \/ Tick

Spec == Init /\ [][Next]_vars

\* The same engine when every insert brings a key never inserted before.
Fresh(key) == key \notin DOMAIN lastVal

NextDistinct ==
    \/ \E key \in Keys, val \in Values, flush \in BOOLEAN :
          Fresh(key) /\ InsertInPlace(key, val, flush)
    \/ \E key \in Keys, val \in Values : Fresh(key) /\ InsertFlush(key, val)
    \/ \E key \in Keys, val \in Values, step \in {"open", "write", "sync"},
          at \in 0..MaxKey : Fresh(key) /\ InsertFlushPanics(key, val, step, at)
    \/ \E key \in Keys, openFails \in BOOLEAN : Get(key, openFails)
    \/ \E filename \in DOMAIN files, openFails \in BOOLEAN :
          Deserialize(filename, openFails)
    \/ \E filename \in DOMAIN files, openFails \in BOOLEAN :
          DeserializeFails(filename, openFails)
    \/ Tick

SpecDistinct == Init /\ [][NextDistinct]_vars

\* The engine as main.rs means to drive it: every insert, also on the store
\* deserialize returned, passes flush = true.
NextAllowFlush ==
    \/ \E key \in Keys, val \in Values : InsertInPlace(key, val, TRUE)
    \/ \E key \in Keys, val \in Values : InsertFlush(key, val)
    \/ \E key \in Keys, val \in Values, step \in {"open", "write", "sync"},
          at \in 0..MaxKey : InsertFlushPanics(key, val, step, at)
    \/ \E key \in Keys, openFails \in BOOLEAN : Get(key, openFails)
    \/ \E filename \in DOMAIN files, openFails \in BOOLEAN :
          Deserialize(filename, openFails)
    \/ \E filename \in DOMAIN files, openFails \in BOOLEAN :
          DeserializeFails(filename, openFails)
    \/ \E key \in Keys, val \in Values, wraps \in BOOLEAN :
          InsertReopened(key, val, TRUE, wraps)
    \/ Tick

SpecAllowFlush == Init /\ [][NextAllowFlush]_vars

\* The engine as compact drives its masterstore: every insert passes
\* flush = false.
NextNoFlush ==
    \/ \E key \in Keys, val \in Values : Insert(key, val, FALSE)
    \/ \E key \in Keys : Get(key, FALSE)
    \/ Tick

SpecNoFlush == Init /\ [][NextNoFlush]_vars

\* Inserts and flushes, then one compaction.
NextCompact ==
    \/ \E key \in Keys, val \in Values, flush \in BOOLEAN :
          InsertInPlace(key, val, flush)
    \/ \E key \in Keys, val \in Values : InsertFlush(key, val)
    \/ \E failing \in SUBSET DOMAIN flushed_files : Compact(failing)
    \/ Tick

SpecCompact == Init /\ [][NextCompact]_vars

\* The writer, a reader and a compactor on three threads.
NextThreads ==
    \/ \E key \in Keys, val \in Values : WriterInsert(key, val)
    \/ \E key \in Keys, val \in Values, ok \in BOOLEAN : FlushOpen(key, val, ok)
    \/ FlushLockIndex
    \/ \E at \in 0..MaxKey : FlushWrite(at)
    \/ \E ok \in BOOLEAN : FlushSync(ok)
    \/ FlushRegister
    \/ \E key \in Keys : GetLock(key)
    \/ \E openFails \in BOOLEAN : GetRead(openFails)
    \/ CompactLockFiles
    \/ CompactLockIndex
    \/ \E failing \in SUBSET DOMAIN flushed_files,
          step \in {"ok", "open", "sync"} : CompactMerge(failing, step)
    \/ Tick

SpecThreads == Init /\ [][NextThreads]_vars

\* The decoder on its own: one data file of one or two records in ascending
\* key order, cut at any byte (what a write that stopped half way leaves), and
\* DingoStore::deserialize called on it.
WholeSegments ==
    {serialize(k, v) : k \in Keys, v \in Values} \cup
    {serialize(k1, v1) \o serialize(k2, v2) :
        <<k1, k2>> \in {kk \in Keys \X Keys : KeyLess(kk[1], kk[2])},
        <<v1, v2>> \in Values \X Values}

TruncatedSegments ==
    UNION {{SubSeq(b, 1, n) : n \in 0..Len(b)} : b \in WholeSegments}

InitDecode ==
    /\ objs = EmptyMap
    /\ keys = <<>>
    /\ treesize = 0
    /\ index = EmptyMap
    /\ flushed_files = EmptyMap
    /\ files \in {[f \in {data_fname(Prefix, 0)} |-> b] : b \in TruncatedSegments}
    /\ now = 0
    /\ panicked = "no"
    /\ rs = None
    /\ lastOp = NoOp
    /\ lastVal = EmptyMap
    /\ flushes = 0
    /\ InitThreads

NextDecode ==
    \/ \E filename \in DOMAIN files, openFails \in BOOLEAN :
          Deserialize(filename, openFails)
    \/ \E filename \in DOMAIN files, openFails \in BOOLEAN :
          DeserializeFails(filename, openFails)

SpecDecode == InitDecode /\ [][NextDecode]_vars

\* The engine flushes, is dropped, and the store deserialize returns takes
\* inserts with either flag.
NextReopen ==
    \/ \E key \in Keys, val \in Values : InsertInPlace(key, val, TRUE)
    \/ \E key \in Keys, val \in Values : InsertFlush(key, val)
    \/ \E filename \in DOMAIN files, openFails \in BOOLEAN :
          Deserialize(filename, openFails)
    \/ \E key \in Keys, val \in Values, flush \in BOOLEAN, wraps \in BOOLEAN :
          InsertReopened(key, val, flush, wraps)
    \/ Tick

SpecReopen == Init /\ [][NextReopen]_vars

\* ----------------------------------------------------------------- claims
\* A step in which an insert flushed and returned.
FlushStep == flushes' = flushes + 1 /\ panicked' = "no"

\* A step in which the flush of an insert panicked.
FlushPanicStep == panicked = "no" /\ panicked' \in {"open", "write", "sync"}

\* The records of memtable o in ascending key order.
SortedRecords(o) ==
    LET ks == SortedKeys(DOMAIN o) IN
    [i \in 1..Len(ks) |-> [key |-> ks[i], val |-> o[ks[i]]]]

StrictlyAscending(recs) ==
    \A i \in 1..Len(recs) - 1 : KeyLess(recs[i].key, recs[i + 1].key)

Occurrences(seq, k) == Cardinality({i \in 1..Len(seq) : seq[i] = k})

\* C1 (as claimed): with pairwise distinct keys inserted, get(k) returns the
\* value inserted for k, for every inserted key, whatever flushes happened in
\* between (also flushes that read the same millisecond).
C1_RoundTrip ==
    Live => \A k \in DOMAIN lastVal :
                get(objs, index, files, k, FALSE) = Some(lastVal[k])

\* C2: a key the memtable holds has the value of its latest insert, get
\* returns that value without reading any file, and the key is listed once.
C2_LastWriterWins ==
    \A k \in DOMAIN objs : \A openFails \in BOOLEAN :
        /\ get(objs, index, files, k, openFails) = Some(lastVal[k])
        /\ Occurrences(keys, k) = 1

\* C2 witness: an insert has just replaced the value of a key the memtable
\* held, with other keys beside it.
C2_Witness ==
    /\ lastOp = [op |-> "insert", replaced |-> TRUE]
    /\ Cardinality(DOMAIN objs) >= 2
    /\ \E k \in DOMAIN objs : objs[k] = <<98, 98>>

\* C3 (as claimed): when a flush writes a key that an earlier flush wrote
\* too, get of that key (no longer in the memtable) returns the value of the
\* later flush.
C3_Recency ==
    [][FlushStep =>
        \A k \in (DOMAIN objs \cap DOMAIN index) \ DOMAIN objs' :
            get(objs', index', files', k, FALSE) = Some(objs[k])]_vars

\* C4 (as claimed): before any flush, the size counter is the sum over the
\* keys held of 12 + the byte length of the key's value.
RECURSIVE SpecSize(_, _)
SpecSize(o, ks) ==
    IF ks = {} THEN 0
    ELSE LET k == CHOOSE x \in ks : TRUE IN
         12 + Len(o[k]) + SpecSize(o, ks \ {k})

C4_SizeAccounting ==
    (Live /\ flushes = 0) => treesize = SpecSize(objs, DOMAIN objs)

\* C5 (as claimed): an insert that flushes leaves a segment file that decodes
\* to exactly the records the memtable held, ascending, and a memtable that
\* holds only the new record, counted once.
C5_FlushResult ==
    [][FlushStep =>
        LET r == read_loop(files'[data_fname(Prefix, now)], <<>>) IN
        /\ r.ok
        /\ r.recs = SortedRecords(objs)
        /\ Cardinality(DOMAIN objs') = 1
        /\ \A k \in DOMAIN objs' : objs'[k] = lastVal'[k]
        /\ treesize' = new_size(0)]_vars

\* C6 (as claimed): every file a flush wrote decodes to records with
\* strictly ascending keys.
C6_SegmentOrdering ==
    \A f \in DOMAIN files : StrictlyAscending(read_loop(files[f], <<>>).recs)

\* C7 (as claimed): no step changes the bytes of a file that the directory
\* names before and after the step.
C7_Immutability ==
    [][\A f \in Range(index) \cap Range(index') : files'[f] = files[f]]_vars

\* C8 (as claimed): a get whose segment could not be opened or decoded does
\* not answer "absent".
C8_GetSurfacesFailure ==
    (lastOp.op = "get" /\ lastOp.segErr) => lastOp.res # None

\* C9 (as claimed): a flush that fails leaves the memtable and its size as
\* they were and adds no directory entry that names the file it was writing.
C9_FailedFlushAtomic ==
    [][FlushPanicStep =>
        /\ objs' = objs
        /\ treesize' = treesize
        /\ keys' = keys
        /\ \A k \in DOMAIN index' :
               index'[k] = data_fname(Prefix, now) =>
                   (k \in DOMAIN index /\ index[k] = index'[k])]_vars

CompactStep == panicked = "no" /\ panicked' = "compacted"

\* The records of the data file at path p, when it decodes.
RecordsOf(fs, p) == read_loop(fs[p], <<>>)

Holds(fs, p, k) ==
    /\ RecordsOf(fs, p).ok
    /\ \E i \in 1..Len(RecordsOf(fs, p).recs) : RecordsOf(fs, p).recs[i].key = k

\* The value the file holds for k: that of its last record for k.
ValueIn(fs, p, k) ==
    LET recs == RecordsOf(fs, p).recs
        last == CHOOSE i \in 1..Len(recs) :
                   /\ recs[i].key = k
                   /\ \A j \in (i + 1)..Len(recs) : recs[j].key # k
    IN  recs[last].val

\* C11 (as claimed): the file compact writes decodes, and for every key that
\* a flushed file holds it has exactly one record, with the value of the
\* flushed file of the latest timestamp that holds the key.
C11_CompactionLatest ==
    [][CompactStep =>
        LET inputs == Range(flushed_files)
            out == RecordsOf(files', data_fname(Prefix, now))
        IN  /\ out.ok
            /\ \A k \in Keys :
                  (\E p \in inputs : Holds(files, p, k)) =>
                     LET newest == CHOOSE p \in inputs :
                                      /\ Holds(files, p, k)
                                      /\ \A q \in inputs :
                                            Holds(files, q, k) => ~PathLess(p, q)
                     IN  /\ Cardinality({i \in 1..Len(out.recs) :
                                            out.recs[i].key = k}) = 1
                         /\ \E i \in 1..Len(out.recs) :
                               out.recs[i] = [key |-> k,
                                              val |-> ValueIn(files, newest, k)]]_vars

\* C12 (as claimed): when compact returns, the shared directory maps every
\* key of the new file to it, the new file is among the flushed files, and
\* every other input is gone from both and from the disk.
C12_CompactionInstalls ==
    [][CompactStep =>
        LET new == data_fname(Prefix, now)
            out == RecordsOf(files', new).recs
            retired == Range(flushed_files) \ {new}
        IN  /\ \A i \in 1..Len(out) :
                  out[i].key \in DOMAIN index' /\ index'[out[i].key] = new
            /\ new \in DOMAIN flushed_files'
            /\ \A p \in retired :
                  /\ p \notin Range(index')
                  /\ p \notin DOMAIN flushed_files'
                  /\ p \notin DOMAIN files']_vars

\* C13: when every insert passes flush = true, the size counter of the engine,
\* and of a reopened store once an insert on it has returned, is at most
\* SIZE_THRESH.
C13_MemtableBound ==
    /\ treesize <= SIZE_THRESH
    /\ (rs.some /\ lastOp.op = "rs_insert") => rs.val.treesize <= SIZE_THRESH

\* An insert that flushed has returned with the counter at the threshold.
C13_Witness ==
    /\ lastOp = [op |-> "insert", replaced |-> FALSE]
    /\ flushes >= 1
    /\ treesize = SIZE_THRESH

\* C14: an insert with flush = false creates and changes no file, leaves the
\* directory and the set of flushed files as they were and starts no flush;
\* in the memtable it puts one record and touches no other.
C14_NoFlushFrame ==
    [][/\ files' = files
       /\ index' = index
       /\ flushed_files' = flushed_files
       /\ flushes' = flushes
       /\ (objs' # objs \/ lastVal' # lastVal) =>
             \E k \in Keys, v \in Values :
                /\ lastVal' = MapPut(lastVal, k, v)
                /\ objs' = MapPut(objs, k, v)]_vars

\* An insert with flush = false has returned on a memtable beyond the
\* threshold, and there is still no file.
C14_Witness ==
    /\ lastOp.op = "insert"
    /\ new_size(treesize) > SIZE_THRESH + U64_SIZE + STRING_SIZE
    /\ files = EmptyMap
    /\ index = EmptyMap

\* C15 (as claimed): a flush writes to a path that no file has yet.
C15_FreshPath ==
    [][FlushStep => data_fname(Prefix, now) \notin DOMAIN files]_vars

AtFileIO(t) ==
    \/ t = "W" /\ pc[t] \in {"write", "sync"}
    \/ t = "R" /\ pc[t] = "read"
    \/ t = "K" /\ pc[t] = "merge"

\* C17 (as claimed): no thread reads, writes or syncs a data file while it
\* holds the mutex of the directory.
C17_NoLockAcrossIO == \A t \in Threads : AtFileIO(t) => holder.index # t

\* The mutex thread t is waiting for, if it waits.
WaitsFor(t) ==
    IF t = "W" /\ pc[t] = "lock_index" THEN "index"
    ELSE IF t = "W" /\ pc[t] = "lock_files" THEN "flushed_files"
    ELSE IF t = "K" /\ pc[t] = "lock_index" THEN "index"
    ELSE "none"

\* C18 (as claimed): a flush and a compaction never block each other: there
\* are no two threads each waiting for a mutex the other holds.
C18_NoDeadlock ==
    \A t, u \in Threads :
       ~(/\ t # u
         /\ WaitsFor(t) # "none" /\ holder[WaitsFor(t)] = u
         /\ WaitsFor(u) # "none" /\ holder[WaitsFor(u)] = t)

\* The bytes are whole records and nothing else: key, length, and as many
\* value bytes as the length says, up to the end.
RECURSIVE OnRecordBoundary(_)
OnRecordBoundary(b) ==
    \/ b = <<>>
    \/ /\ Len(b) >= 12
       /\ Len(b) >= 12 + U32Of(SubSeq(b, 9, 12))
       /\ OnRecordBoundary(SubSeq(b, 13 + U32Of(SubSeq(b, 9, 12)), Len(b)))

\* C19 (as claimed): deserialize returns a store only when the end of the
\* file falls on a record boundary.
C19_DecoderStrict == rs.some => OnRecordBoundary(files[rs.val.fname])

\* C20 (as claimed): an insert on a reopened store that replaces a key finds
\* the counter at least as large as the 24 it subtracts.
C20_NoUnderflow == lastOp.op = "rs_insert" => ~lastOp.underflow

=============================================================================
